---- MODULE Spec2Model ----
(***************************************************************************)
(* k8s-sqs-autoscaler: the polling loop of lib/sqs_poller.py (SQSPoller).  *)
(* One cycle of poll() is get_number_of_messages, get_deployment,          *)
(* get_pods_delta, safe_update_deployment and update_deployment, followed  *)
(* by sleep(poll_period) in run().  Time is counted in whole ticks.        *)
(***************************************************************************)
EXTENDS Integers, FiniteSets, Sequences, TLC

\* ---------------------------------------------------------------- bounds
MaxTime     == 6  \* the clock is followed up to this tick
MaxStart    == 2  \* latest tick the loop is started at
MaxLatency  == 1  \* most ticks a network call (or two clock reads) can take
MaxReplicas == 3  \* largest replica count the deployment starts with
MaxMessages == 2  \* largest queue depth the queue reports
MaxOption   == 3  \* largest threshold / pod bound of the decision-only check
MaxVars     == 2  \* longest list of names enforce_env_vars is evaluated on

\* ------------------------------------------------------------- constants
InitialScaleTime == 0   \* last_scale_up_time / last_scale_down_time at class level
None == -1              \* a local of poll() that is not bound yet; "never" in the logs

VARIABLES
    options,               \* self.options, fixed after __init__
    now,                   \* what time() returns
    last_scale_up_time,    \* self.last_scale_up_time
    last_scale_down_time,  \* self.last_scale_down_time
    replicas,              \* spec.replicas of the deployment in the cluster
    pc,                    \* where run()/poll() stands
    messages,              \* poll(): messages
    deployment,            \* poll(): deployment.spec.replicas of the fetched object
    pods,                  \* poll(): pods (the delta)
    outcome,               \* how the last finished cycle ended
    patch_up,              \* tick of the last patch call issued for pods > 0
    patch_down,            \* tick of the last patch call issued for pods < 0
    applied_up,            \* tick recorded for the last patch for pods > 0 that succeeded
    applied_down,          \* tick recorded for the last patch for pods < 0 that succeeded
    queue,                 \* the depth the queue is held at, None when it is free to change
    item_name,             \* metadata.name of the first deployment the label selector matches
    template,              \* the rest of that deployment's spec in the cluster (a version)
    deployment_name,       \* poll(): deployment.metadata.name of the fetched object
    deployment_template,   \* poll(): the rest of the fetched object's spec
    patched_name,          \* name= of the last patch call issued
    environ,               \* os.environ, for the variables that are looked at
    startup_error          \* message of the AssertionError that ended __init__, if any

vars == <<options, now, last_scale_up_time, last_scale_down_time, replicas, pc,
          messages, deployment, pods, outcome,
          patch_up, patch_down, applied_up, applied_down,
          queue, item_name, template, deployment_name, deployment_template,
          patched_name, environ, startup_error>>

cooldown == <<last_scale_up_time, last_scale_down_time>>
locals   == <<messages, deployment, pods>>
history  == <<patch_up, patch_down, applied_up, applied_down>>
fetched  == <<deployment_name, deployment_template>>
process  == <<environ, startup_error>>

\* ------------------------------------------------------------ options
\* The option sets the loop is run with.
Options ==
    [ min_pods             : {0, 1},
      max_pods             : {1, 2},
      scale_up_messages    : {2},
      scale_down_messages  : {0},
      scale_up_cool_down   : {0, 2},
      scale_down_cool_down : {0, 3},
      poll_period          : {1},
      kubernetes_deployment : {"worker"} ]

\* The option sets the decision function alone is evaluated on.
DeltaOptions ==
    [ min_pods             : 0..MaxOption,
      max_pods             : 0..MaxOption,
      scale_up_messages    : 0..MaxOption,
      scale_down_messages  : 0..MaxOption,
      scale_up_cool_down   : {0},
      scale_down_cool_down : {0},
      poll_period          : {1},
      kubernetes_deployment : {"worker"} ]

Latency == 0..MaxLatency

\* REQUIRED_ENV_VARS
REQUIRED_ENV_VARS == <<"AWS_ACCESS_KEY_ID", "AWS_SECRET_ACCESS_KEY">>

\* The environment variables that are looked at, and what one can hold:
\* not set, set to the empty string, set to a value.
EnvNames == {"AWS_ACCESS_KEY_ID", "AWS_SECRET_ACCESS_KEY", "FOOBLYA3"}
EnvValues == {"unset", "", "13"}

\* os.environ.get(var) is truthy
Present(var) == environ[var] # "unset" /\ environ[var] # ""

\* 'Environment variable is not present: %s' % var
NotPresentMessage(var) == "Environment variable is not present: " \o var

\* enforce_env_vars(vars): "" stands for the return of None, any other value is
\* the message of the AssertionError raised
RECURSIVE EnforceEnvVarsUnsetOnly(_)
EnforceEnvVarsUnsetOnly(names) ==
    IF names = <<>> THEN ""
    ELSE IF environ[Head(names)] = "unset" THEN NotPresentMessage(Head(names))
    ELSE EnforceEnvVarsUnsetOnly(Tail(names))

RECURSIVE EnforceEnvVars(_)
EnforceEnvVars(names) ==
    IF names = <<>> THEN ""
    ELSE IF ~Present(Head(names)) THEN NotPresentMessage(Head(names))
    ELSE EnforceEnvVars(Tail(names))

\* ------------------------------------------------------------ pure parts
\* get_pods_delta(deployment, messages)
GetPodsDeltaStrictThreshold(current, msgs) ==
    LET missing   == options.min_pods - current
        excessive == current - options.max_pods
    IN  IF missing > 0 THEN missing
        ELSE IF excessive > 0 THEN -excessive
        ELSE IF msgs > options.scale_up_messages /\ current < options.max_pods THEN 1
        ELSE IF msgs <= options.scale_down_messages /\ current > options.min_pods THEN -1
        ELSE 0

GetPodsDeltaSingleStep(current, msgs) ==
    LET missing   == options.min_pods - current
        excessive == current - options.max_pods
    IN  IF missing > 0 THEN 1
        ELSE IF excessive > 0 THEN -1
        ELSE IF msgs >= options.scale_up_messages /\ current < options.max_pods THEN 1
        ELSE IF msgs <= options.scale_down_messages /\ current > options.min_pods THEN -1
        ELSE 0

GetPodsDeltaInclusiveCeiling(current, msgs) ==
    LET missing   == options.min_pods - current
        excessive == current - options.max_pods
    IN  IF missing > 0 THEN missing
        ELSE IF excessive > 0 THEN -excessive
        ELSE IF msgs >= options.scale_up_messages /\ current <= options.max_pods THEN 1
        ELSE IF msgs <= options.scale_down_messages /\ current > options.min_pods THEN -1
        ELSE 0

GetPodsDeltaInclusiveFloor(current, msgs) ==
    LET missing   == options.min_pods - current
        excessive == current - options.max_pods
    IN  IF missing > 0 THEN missing
        ELSE IF excessive > 0 THEN -excessive
        ELSE IF msgs >= options.scale_up_messages /\ current < options.max_pods THEN 1
        ELSE IF msgs <= options.scale_down_messages /\ current >= options.min_pods THEN -1
        ELSE 0

GetPodsDeltaThresholdsOnly(current, msgs) ==
    IF msgs >= options.scale_up_messages /\ current < options.max_pods THEN 1
    ELSE IF msgs <= options.scale_down_messages /\ current > options.min_pods THEN -1
    ELSE 0

GetPodsDelta(current, msgs) ==
    LET missing   == options.min_pods - current
        excessive == current - options.max_pods
    IN  IF missing > 0 THEN missing
        ELSE IF excessive > 0 THEN -excessive
        ELSE IF msgs >= options.scale_up_messages /\ current < options.max_pods THEN 1
        ELSE IF msgs <= options.scale_down_messages /\ current > options.min_pods THEN -1
        ELSE 0

\* last + cool_down - time(), clamped at 0
DelayWithoutCoolDown(last, cool_down, t) ==
    LET delay == last - t
    IN  IF delay < 0 THEN 0 ELSE delay

DelayUnclamped(last, cool_down, t) == last + cool_down - t

Delay(last, cool_down, t) ==
    LET delay == last + cool_down - t
    IN  IF delay < 0 THEN 0 ELSE delay

\* get_scale_up_delay()
GetScaleUpDelay == Delay(last_scale_up_time, options.scale_up_cool_down, now)

\* get_scale_down_delay()
GetScaleDownDelay == Delay(last_scale_down_time, options.scale_down_cool_down, now)

\* update_deployment: deployment.spec.replicas += pods, clamped at 0
NewReplicasUnclamped(current, delta) == current + delta

NewReplicas(current, delta) ==
    IF current + delta < 0 THEN 0 ELSE current + delta

\* ------------------------------------------------------------ initial state
Init ==
    /\ options \in Options
    /\ now \in 0..MaxStart
    /\ last_scale_up_time = InitialScaleTime
    /\ last_scale_down_time = InitialScaleTime
    /\ replicas \in 0..MaxReplicas
    /\ pc = "get_number_of_messages"
    /\ messages = None
    /\ deployment = None
    /\ pods = 0
    /\ outcome = "none"
    /\ patch_up = None
    /\ patch_down = None
    /\ applied_up = None
    /\ applied_down = None
    /\ queue = None
    /\ item_name = options.kubernetes_deployment
    /\ template = 0
    /\ deployment_name = ""
    /\ deployment_template = None
    /\ patched_name = ""
    /\ environ = [v \in EnvNames |-> "13"]
    /\ startup_error = ""

\* ------------------------------------------------------------ poll()
\* except Exception as e: the error is logged and poll() returns to run()
ExceptHandlerPropagates == "stopped"

ExceptHandler == "sleep"

\* An exception raised from the step at pc: caught in poll(), which touches
\* neither the poller's timestamps nor the cluster.
RaiseResetsCooldown ==
    /\ pc' = ExceptHandler
    /\ outcome' = "failed"
    /\ last_scale_up_time' = InitialScaleTime
    /\ last_scale_down_time' = InitialScaleTime
    /\ UNCHANGED replicas

Raise ==
    /\ pc' = ExceptHandler
    /\ outcome' = "failed"
    /\ UNCHANGED <<cooldown, replicas>>

\* messages = self.get_number_of_messages()
GetNumberOfMessages ==
    /\ pc = "get_number_of_messages"
    /\ \E d \in Latency :
        /\ now + d <= MaxTime
        /\ now' = now + d
    /\ \/ /\ \E m \in 0..MaxMessages :
                /\ queue = None \/ m = queue
                /\ messages' = m
          /\ pc' = "get_deployment"
          /\ UNCHANGED <<outcome, cooldown, replicas>>
       \/ /\ Raise
          /\ UNCHANGED messages
    /\ UNCHANGED <<options, deployment, pods, history, queue, item_name, template,
                   fetched, patched_name, process>>

\* deployment = self.get_deployment()
GetDeployment ==
    /\ pc = "get_deployment"
    /\ \E d \in Latency :
        /\ now + d <= MaxTime
        /\ now' = now + d
    /\ \/ /\ deployment' = replicas        \* deployments.items[0]
          /\ deployment_name' = item_name
          /\ deployment_template' = template
          /\ pc' = "get_pods_delta"
          /\ UNCHANGED <<outcome, cooldown, replicas>>
       \/ /\ Raise                         \* DeploymentNotFoundError, API error
          /\ UNCHANGED <<deployment, fetched>>
    /\ UNCHANGED <<options, messages, pods, history, queue, item_name, template,
                   patched_name, process>>

\* pods = self.get_pods_delta(deployment, messages); if pods != 0: ...
PodsDelta ==
    /\ pc = "get_pods_delta"
    /\ pods' = GetPodsDelta(deployment, messages)
    /\ IF pods' # 0
          THEN pc' = "safe_update_deployment" /\ UNCHANGED outcome
          ELSE pc' = "sleep" /\ outcome' = "noop"
    /\ UNCHANGED <<options, now, cooldown, replicas, messages, deployment, history,
                   queue, item_name, template, fetched, patched_name, process>>

\* ------------------------------------------------------------ safe_update_deployment()
\* if delay == 0, for pods > 0 (the test is on the sign of pods alone)
ScaleUpBlockedUnlessCorrective == GetScaleUpDelay # 0 /\ deployment >= options.min_pods

ScaleUpBlocked == GetScaleUpDelay # 0

\* if delay == 0, for pods < 0
ScaleDownBlocked == GetScaleDownDelay # 0

\* self.last_scale_up_time = time()
RecordScaleUpLocalOnly(t) == UNCHANGED cooldown

RecordScaleUpBoth(t) ==
    /\ last_scale_up_time' = t
    /\ last_scale_down_time' = t

RecordScaleUpUnlessCorrective(t) ==
    IF deployment < options.min_pods
       THEN UNCHANGED cooldown
       ELSE /\ last_scale_up_time' = t
            /\ UNCHANGED last_scale_down_time

RecordScaleUp(t) ==
    /\ last_scale_up_time' = t
    /\ UNCHANGED last_scale_down_time

\* self.last_scale_down_time = time()
RecordScaleDown(t) ==
    /\ last_scale_down_time' = t
    /\ UNCHANGED last_scale_up_time

\* delay != 0: the request is logged as blocked and nothing else happens
BlockedRecording ==
    /\ pc' = "sleep"
    /\ outcome' = "blocked"
    /\ IF pods > 0
          THEN last_scale_up_time' = now /\ UNCHANGED last_scale_down_time
          ELSE last_scale_down_time' = now /\ UNCHANGED last_scale_up_time
    /\ UNCHANGED now

Blocked ==
    /\ pc' = "sleep"
    /\ outcome' = "blocked"
    /\ UNCHANGED <<now, cooldown>>

\* delay == 0: time() is read a second time (d ticks later) and recorded, and
\* update_deployment is entered
AllowedUp ==
    /\ \E d \in Latency :
        /\ now + d <= MaxTime
        /\ now' = now + d
        /\ RecordScaleUp(now + d)
    /\ pc' = "update_deployment"
    /\ UNCHANGED outcome

AllowedDown ==
    /\ \E d \in Latency :
        /\ now + d <= MaxTime
        /\ now' = now + d
        /\ RecordScaleDown(now + d)
    /\ pc' = "update_deployment"
    /\ UNCHANGED outcome

SafeUpdateDeployment ==
    /\ pc = "safe_update_deployment"
    /\ IF pods > 0
          THEN IF ScaleUpBlocked THEN Blocked ELSE AllowedUp
          ELSE IF ScaleDownBlocked THEN Blocked ELSE AllowedDown
    /\ UNCHANGED <<options, replicas, locals, history, queue, item_name, template,
                   fetched, patched_name, process>>

\* ------------------------------------------------------------ update_deployment()
\* patch_namespaced_deployment raised: nothing was applied, poll() catches it
PatchFailed ==
    /\ Raise
    /\ UNCHANGED <<applied_up, applied_down, template>>

\* patch_namespaced_deployment returned: the record named in the call holds what
\* the body holds.  Names are unique in a namespace and the body carries the
\* metadata of the fetched object, so the call can only be accepted when the name
\* in the call is the fetched object's name.
PatchApplied ==
    /\ deployment_name = options.kubernetes_deployment
    /\ replicas' = deployment'
    /\ template' = deployment_template
    /\ applied_up' = IF pods > 0 THEN now ELSE applied_up
    /\ applied_down' = IF pods < 0 THEN now ELSE applied_down
    /\ pc' = "sleep"
    /\ outcome' = "updated"
    /\ UNCHANGED cooldown

UpdateDeployment ==
    /\ pc = "update_deployment"
    /\ deployment' = NewReplicas(deployment, pods)
    /\ patch_up' = IF pods > 0 THEN now ELSE patch_up
    /\ patch_down' = IF pods < 0 THEN now ELSE patch_down
    /\ \E d \in Latency :
        /\ now + d <= MaxTime
        /\ now' = now + d
    /\ patched_name' = options.kubernetes_deployment
    /\ \/ PatchApplied
       \/ PatchFailed
    /\ UNCHANGED <<options, messages, pods, queue, item_name, fetched, process>>

\* ------------------------------------------------------------ run()
\* sleep(self.options.poll_period), then the next poll() with fresh locals
Sleep ==
    /\ pc = "sleep"
    /\ now + options.poll_period <= MaxTime
    /\ now' = now + options.poll_period
    /\ pc' = "get_number_of_messages"
    /\ messages' = None
    /\ deployment' = None
    /\ pods' = 0
    /\ deployment_name' = ""
    /\ deployment_template' = None
    /\ UNCHANGED <<options, cooldown, replicas, outcome, history, queue, item_name,
                   template, patched_name, process>>

Next ==
    \/ GetNumberOfMessages
    \/ GetDeployment
    \/ PodsDelta
    \/ SafeUpdateDeployment
    \/ UpdateDeployment
    \/ Sleep

Spec == Init /\ [][Next]_vars

\* run() is one thread that is always scheduled: a step that can be taken is taken.
FairSpec == Spec /\ WF_vars(Next)

\* ------------------------------------------------------------ runs without failures
\* The loop when no SQS or Kubernetes call raises.
NoFailure == outcome' # "failed"

NextNoFailure ==
    \/ GetNumberOfMessages /\ NoFailure
    \/ GetDeployment /\ NoFailure
    \/ PodsDelta
    \/ SafeUpdateDeployment
    \/ UpdateDeployment /\ NoFailure
    \/ Sleep

SpecNoFailure == Init /\ [][NextNoFailure]_vars /\ WF_vars(NextNoFailure)

\* The loop when no call raises and the queue depth stays what it is, at or
\* above scale_up_messages or at or below scale_down_messages.
InitHeld ==
    /\ options \in Options
    /\ now \in 0..MaxStart
    /\ last_scale_up_time = InitialScaleTime
    /\ last_scale_down_time = InitialScaleTime
    /\ replicas \in 0..MaxReplicas
    /\ pc = "get_number_of_messages"
    /\ messages = None
    /\ deployment = None
    /\ pods = 0
    /\ outcome = "none"
    /\ patch_up = None
    /\ patch_down = None
    /\ applied_up = None
    /\ applied_down = None
    /\ queue \in 0..MaxMessages
    /\ \/ queue >= options.scale_up_messages
       \/ queue <= options.scale_down_messages
    /\ item_name = options.kubernetes_deployment
    /\ template = 0
    /\ deployment_name = ""
    /\ deployment_template = None
    /\ patched_name = ""
    /\ environ = [v \in EnvNames |-> "13"]
    /\ startup_error = ""

SpecHeld == InitHeld /\ [][NextNoFailure]_vars /\ WF_vars(NextNoFailure)

\* ------------------------------------------------------------ the decision alone
InitDelta ==
    /\ options \in DeltaOptions
    /\ now = 0
    /\ last_scale_up_time = InitialScaleTime
    /\ last_scale_down_time = InitialScaleTime
    /\ replicas \in 0..(MaxOption + 1)
    /\ pc = "get_pods_delta"
    /\ messages \in 0..(MaxOption + 1)
    /\ deployment = replicas
    /\ pods = 0
    /\ outcome = "none"
    /\ patch_up = None
    /\ patch_down = None
    /\ applied_up = None
    /\ applied_down = None
    /\ queue = None
    /\ item_name = options.kubernetes_deployment
    /\ template = 0
    /\ deployment_name = item_name
    /\ deployment_template = template
    /\ patched_name = ""
    /\ environ = [v \in EnvNames |-> "13"]
    /\ startup_error = ""

NextDelta == PodsDelta

SpecDelta == InitDelta /\ [][NextDelta]_vars

\* ------------------------------------------------------------ min_pods below zero
\* Nothing validates the options: MIN_PODS / MAX_PODS can be given below zero.
NegativeOptions ==
    [ min_pods             : {-1},
      max_pods             : {-1, 1},
      scale_up_messages    : {2},
      scale_down_messages  : {0},
      scale_up_cool_down   : {0},
      scale_down_cool_down : {0},
      poll_period          : {1},
      kubernetes_deployment : {"worker"} ]

InitNegative ==
    /\ options \in NegativeOptions
    /\ now \in 0..MaxStart
    /\ last_scale_up_time = InitialScaleTime
    /\ last_scale_down_time = InitialScaleTime
    /\ replicas \in 0..MaxReplicas
    /\ pc = "get_number_of_messages"
    /\ messages = None
    /\ deployment = None
    /\ pods = 0
    /\ outcome = "none"
    /\ patch_up = None
    /\ patch_down = None
    /\ applied_up = None
    /\ applied_down = None
    /\ queue = None
    /\ item_name = options.kubernetes_deployment
    /\ template = 0
    /\ deployment_name = ""
    /\ deployment_template = None
    /\ patched_name = ""
    /\ environ = [v \in EnvNames |-> "13"]
    /\ startup_error = ""

SpecNegative == InitNegative /\ [][Next]_vars

\* ------------------------------------------------------------ __init__()
\* One configuration is enough to follow the loop after construction.
StartupOptions ==
    [ min_pods             : {0},
      max_pods             : {2},
      scale_up_messages    : {2},
      scale_down_messages  : {0},
      scale_up_cool_down   : {2},
      scale_down_cool_down : {0},
      poll_period          : {1},
      kubernetes_deployment : {"worker"} ]

InitStartup ==
    /\ options \in StartupOptions
    /\ now = 0
    /\ last_scale_up_time = InitialScaleTime
    /\ last_scale_down_time = InitialScaleTime
    /\ replicas \in 0..MaxReplicas
    /\ pc = "init"
    /\ messages = None
    /\ deployment = None
    /\ pods = 0
    /\ outcome = "none"
    /\ patch_up = None
    /\ patch_down = None
    /\ applied_up = None
    /\ applied_down = None
    /\ queue = None
    /\ item_name = options.kubernetes_deployment
    /\ template = 0
    /\ deployment_name = ""
    /\ deployment_template = None
    /\ patched_name = ""
    /\ environ \in [EnvNames -> EnvValues]
    /\ startup_error = ""

\* SQSPoller(options): enforce_env_vars(self.REQUIRED_ENV_VARS) first; its
\* AssertionError leaves __init__ and run() is never called.  After it the two
\* clients are built, which can raise as well.
Construct ==
    /\ pc = "init"
    /\ LET error == EnforceEnvVars(REQUIRED_ENV_VARS)
       IN  IF error # ""
              THEN /\ pc' = "exited"
                   /\ startup_error' = error
              ELSE \/ /\ pc' = "get_number_of_messages"
                      /\ UNCHANGED startup_error
                   \/ /\ pc' = "exited"
                      /\ startup_error' = "client"
    /\ UNCHANGED <<options, now, cooldown, replicas, locals, outcome, history, queue,
                   item_name, template, fetched, patched_name, environ>>

NextStartup ==
    \/ Construct
    \/ Next

SpecStartup == InitStartup /\ [][NextStartup]_vars

\* ------------------------------------------------------------ the cluster
\* The deployment the selector app=<kubernetes_deployment> matches first need
\* not be named <kubernetes_deployment>, and other actors edit the cluster.
ClusterOptions ==
    [ min_pods             : {0},
      max_pods             : {2},
      scale_up_messages    : {2},
      scale_down_messages  : {0},
      scale_up_cool_down   : {0},
      scale_down_cool_down : {0},
      poll_period          : {1},
      kubernetes_deployment : {"worker"} ]

InitCluster ==
    /\ options \in ClusterOptions
    /\ now = 0
    /\ last_scale_up_time = InitialScaleTime
    /\ last_scale_down_time = InitialScaleTime
    /\ replicas \in 0..MaxReplicas
    /\ pc = "get_number_of_messages"
    /\ messages = None
    /\ deployment = None
    /\ pods = 0
    /\ outcome = "none"
    /\ patch_up = None
    /\ patch_down = None
    /\ applied_up = None
    /\ applied_down = None
    /\ queue = None
    /\ item_name \in {"worker", "worker-v2"}
    /\ template = 0
    /\ deployment_name = ""
    /\ deployment_template = None
    /\ patched_name = ""
    /\ environ = [v \in EnvNames |-> "13"]
    /\ startup_error = ""

\* Another actor changes a field of the deployment other than spec.replicas
\* (a new image, say), at any moment.
ExternalEdit ==
    /\ template' = 1 - template
    /\ UNCHANGED <<options, now, cooldown, replicas, pc, locals, outcome, history,
                   queue, item_name, fetched, patched_name, process>>

NextCluster ==
    \/ Next
    \/ ExternalEdit

SpecCluster == InitCluster /\ [][NextCluster]_vars

\* ============================================================ claims
\* The fetched replica count lies outside [min_pods, max_pods].
Corrective == deployment < options.min_pods \/ deployment > options.max_pods

\* ------------------------------------------------------------------ C1
\* C1: for a replica count and a backlog >= 0 and options with
\* 0 <= min_pods <= max_pods, get_pods_delta returns the first rule that
\* matches: the jump up to min_pods, the jump down to max_pods, +1, -1, else 0.
C1_FiveRulesInOrder ==
    (/\ pc # "get_pods_delta"
     /\ 0 <= options.min_pods /\ options.min_pods <= options.max_pods
     /\ deployment >= 0 /\ messages >= 0)
    => LET below == deployment < options.min_pods
           above == deployment > options.max_pods
           up    == /\ messages >= options.scale_up_messages
                    /\ deployment < options.max_pods
           down  == /\ messages <= options.scale_down_messages
                    /\ deployment > options.min_pods
       IN  /\ below => pods = options.min_pods - deployment
           /\ (~below /\ above) => pods = -(deployment - options.max_pods)
           /\ (~below /\ ~above /\ up) => pods = 1
           /\ (~below /\ ~above /\ ~up /\ down) => pods = -1
           /\ (~below /\ ~above /\ ~up /\ ~down) => pods = 0

\* Both the scale-up and the scale-down rule match and +1 was returned.
C1_Witness ==
    /\ pc = "safe_update_deployment"
    /\ options.min_pods < deployment /\ deployment < options.max_pods
    /\ messages >= options.scale_up_messages
    /\ messages <= options.scale_down_messages
    /\ pods = 1

C3_CooldownBetweenUpdates ==
    /\ [](pc = "update_deployment" =>
            /\ (pods > 0 /\ patch_up # None) =>
                   patch_up + options.scale_up_cool_down <= now
            /\ (pods < 0 /\ patch_down # None) =>
                   patch_down + options.scale_down_cool_down <= now)
    /\ [][ (pc = "safe_update_deployment" /\ pc' = "update_deployment") =>
             /\ pods > 0 => last_scale_up_time + options.scale_up_cool_down <= now
             /\ pods < 0 => last_scale_down_time + options.scale_down_cool_down <= now
         ]_vars

\* A second scale-up patch is about to be issued under a cooldown > 0.
C3_Witness ==
    /\ pc = "update_deployment" /\ pods > 0
    /\ patch_up # None /\ options.scale_up_cool_down > 0

\* ------------------------------------------------------------------ C4
\* C4: no step of a cycle whose delta is >= 0 changes last_scale_down_time or
\* the scale-down delay at any time, and no step of a cycle whose delta is
\* <= 0 changes last_scale_up_time or the scale-up delay.
C4_DirectionsIndependent ==
    [][ /\ pods >= 0 =>
             /\ last_scale_down_time' = last_scale_down_time
             /\ \A t \in 0..MaxTime :
                  Delay(last_scale_down_time', options.scale_down_cool_down', t)
                    = Delay(last_scale_down_time, options.scale_down_cool_down, t)
        /\ pods <= 0 =>
             /\ last_scale_up_time' = last_scale_up_time
             /\ \A t \in 0..MaxTime :
                  Delay(last_scale_up_time', options.scale_up_cool_down', t)
                    = Delay(last_scale_up_time, options.scale_up_cool_down, t)
      ]_vars

\* A scale-up was recorded after a scale-down had been recorded.
C4_Witness ==
    /\ pc = "update_deployment" /\ pods > 0
    /\ last_scale_down_time # InitialScaleTime
    /\ last_scale_down_time = patch_down
    /\ last_scale_up_time > last_scale_down_time

\* ------------------------------------------------------------------ C5
\* C5: a request whose remaining wait is > 0 ends the cycle blocked: no patch
\* call, replica count and both timestamps as before; the next cycle starts
\* with no delta and no reads carried over.
C5_BlockedChangesNothing ==
    /\ [][ (/\ pc = "safe_update_deployment"
            /\ \/ pods > 0 /\ last_scale_up_time + options.scale_up_cool_down - now > 0
               \/ pods < 0 /\ last_scale_down_time + options.scale_down_cool_down - now > 0)
           => /\ pc' = "sleep" /\ outcome' = "blocked"
              /\ UNCHANGED <<replicas, cooldown, history>> ]_vars
    /\ [][ (pc = "sleep" /\ outcome = "blocked") =>
             /\ pc' = "get_number_of_messages"
             /\ pods' = 0 /\ messages' = None /\ deployment' = None
             /\ UNCHANGED <<replicas, cooldown, history>> ]_vars

\* A +1 was blocked by the cooldown of an applied scale-up.
C5_Witness ==
    /\ pc = "sleep" /\ outcome = "blocked" /\ pods = 1
    /\ ~Corrective
    /\ applied_up # None /\ last_scale_up_time = applied_up
    /\ replicas = deployment

\* ------------------------------------------------------------------ C6
\* C6: when the patch call is issued the timestamp of its direction already
\* holds the current tick; if the call fails the cycle ends failed with the
\* replica count and the timestamps as they were, so the delay of that
\* direction stays > 0 until a full cooldown after the failed call.
C6_RecordedBeforeUpdate ==
    /\ [](pc = "update_deployment" =>
            /\ pods > 0 => last_scale_up_time = now
            /\ pods < 0 => last_scale_down_time = now)
    /\ [][ (pc = "update_deployment" /\ outcome' = "failed") =>
             /\ pc' = "sleep"
             /\ UNCHANGED <<replicas, cooldown>>
             /\ pods > 0 =>
                  \A t \in now..MaxTime :
                     t < now + options.scale_up_cool_down =>
                        Delay(last_scale_up_time', options.scale_up_cool_down, t) > 0
             /\ pods < 0 =>
                  \A t \in now..MaxTime :
                     t < now + options.scale_down_cool_down =>
                        Delay(last_scale_down_time', options.scale_down_cool_down, t) > 0
         ]_vars

\* A scale-up patch failed and its timestamp is the one in force.
C6_Witness ==
    /\ pc = "sleep" /\ outcome = "failed" /\ pods > 0
    /\ options.scale_up_cool_down > 0
    /\ last_scale_up_time = patch_up /\ applied_up # patch_up
    /\ replicas # deployment

\* ------------------------------------------------------------------ C7
\* C7 as stated: between cycles the timestamp of each direction is the
\* initial value or the tick recorded for the last patch of that direction
\* that was applied.
C7_TimestampOfLastApplied ==
    pc = "sleep" =>
        /\ last_scale_up_time \in {InitialScaleTime, applied_up}
        /\ last_scale_down_time \in {InitialScaleTime, applied_down}

\* C7 as amended: outside update_deployment the timestamp of each direction
\* is the initial value while no patch call of that direction was issued, and
\* else the tick of the last patch call issued, applied or failed; a delta
\* that was computed or blocked without a patch call never moves it.
C7_TimestampOfLastAttempt ==
    pc # "update_deployment" =>
        /\ last_scale_up_time =
              IF patch_up = None THEN InitialScaleTime ELSE patch_up
        /\ last_scale_down_time =
              IF patch_down = None THEN InitialScaleTime ELSE patch_down

\* A scale-down patch failed, none was ever applied, and a later cycle was blocked.
C7_Witness ==
    /\ pc = "sleep" /\ outcome = "blocked" /\ pods < 0
    /\ applied_down = None /\ patch_down # None
    /\ last_scale_down_time = patch_down

\* ------------------------------------------------------------------ C8
\* C8: the steps up to and including the deployment lookup issue no patch
\* call and leave replica count and timestamps alone; when one of them fails
\* the cycle ends there, and the next cycle starts with fresh locals.
C8_EarlyFailureChangesNothing ==
    /\ [][ (pc = "get_number_of_messages" \/ pc = "get_deployment") =>
             /\ UNCHANGED <<replicas, cooldown, history>>
             /\ pc' \in {"get_deployment", "get_pods_delta", "sleep", pc}
             /\ pc' = "sleep" => (outcome' = "failed" /\ pods' = 0)
         ]_vars
    /\ [][ (pc = "sleep" /\ outcome = "failed") =>
             /\ pc' = "get_number_of_messages"
             /\ pods' = 0 /\ messages' = None /\ deployment' = None
             /\ UNCHANGED <<replicas, cooldown, history>> ]_vars

\* The lookup failed in a cycle that followed a recorded scale-up.
C8_Witness ==
    /\ pc = "sleep" /\ outcome = "failed"
    /\ messages # None /\ deployment = None
    /\ last_scale_up_time # InitialScaleTime

\* ------------------------------------------------------------------ C9
\* C9: every cycle, failed or not, reaches the sleep of run(); from the sleep
\* the next cycle starts (while the clock is followed); a cycle starts only
\* from the sleep, so cycles never overlap.
C9_LoopNeverStops ==
    /\ (pc # "sleep") ~> (pc = "sleep")
    /\ (pc = "sleep" /\ now + options.poll_period <= MaxTime)
          ~> (pc = "get_number_of_messages")
    /\ [][ pc' = "get_number_of_messages" => pc \in {"sleep", "get_number_of_messages"} ]_vars

\* A cycle is under way after a cycle in which the patch call failed.
C9_Witness ==
    /\ pc = "get_deployment" /\ outcome = "failed"
    /\ patch_up # None /\ applied_up = None

\* ------------------------------------------------------------------ C10
\* C10 as stated: whatever the cooldowns and the clock, a request is blocked
\* only after a patch call of its direction was issued.
C10_FirstActionNeverBlocked ==
    (pc = "sleep" /\ outcome = "blocked") =>
        /\ pods > 0 => patch_up # None
        /\ pods < 0 => patch_down # None

\* C10 as amended: with both timestamps starting at 0, the first request of a
\* direction goes through exactly when the clock is at least that direction's
\* cooldown; at a clock below the cooldown it is blocked.
C10_FirstActionNeedsClockPastCooldown ==
    /\ [](pc = "get_number_of_messages" =>
            /\ patch_up = None => last_scale_up_time = InitialScaleTime
            /\ patch_down = None => last_scale_down_time = InitialScaleTime)
    /\ [][ pc = "safe_update_deployment" =>
             /\ (pods > 0 /\ patch_up = None) =>
                  (pc' = "update_deployment" <=> now >= options.scale_up_cool_down)
             /\ (pods < 0 /\ patch_down = None) =>
                  (pc' = "update_deployment" <=> now >= options.scale_down_cool_down)
         ]_vars

\* The first scale-down goes through under a cooldown > 0.
C10_Witness ==
    /\ pc = "update_deployment" /\ pods < 0
    /\ patch_down = None
    /\ options.scale_down_cool_down > 0
    /\ now >= options.scale_down_cool_down

C13_JumpToViolatedBound ==
    (pc # "get_pods_delta" /\ options.min_pods <= options.max_pods)
    => /\ deployment < options.min_pods
            => /\ pods = options.min_pods - deployment
               /\ deployment + pods = options.min_pods
       /\ deployment > options.max_pods
            => /\ pods = -(deployment - options.max_pods)
               /\ deployment + pods = options.max_pods

\* A jump of two or more, up although the backlog asks for a scale-down or
\* down although the backlog asks for a scale-up.
C13_Witness ==
    /\ pc = "safe_update_deployment"
    /\ options.min_pods <= options.max_pods
    /\ \/ /\ pods >= 2
          /\ messages <= options.scale_down_messages
          /\ messages < options.scale_up_messages
       \/ /\ pods <= -2
          /\ messages >= options.scale_up_messages
          /\ messages > options.scale_down_messages

\* ------------------------------------------------------------------ C15
\* C15 as stated: with min_pods = max_pods, get_pods_delta returns neither +1
\* nor -1, for any backlog and any replica count.
C15_NeverPlusOrMinusOne ==
    (pc # "get_pods_delta" /\ options.min_pods = options.max_pods)
    => (pods # 1 /\ pods # -1)

\* C15 as amended: with min_pods = max_pods, the rules for +1 and -1 never
\* match: every delta is the jump min_pods - current to the single allowed
\* count (which is +1 or -1 when the count is one off), and at that count the
\* delta is 0 and the cycle issues no update.
C15_PinnedToSingleCount ==
    (pc # "get_pods_delta" /\ options.min_pods = options.max_pods)
    => /\ pods = options.min_pods - deployment
       /\ deployment = options.min_pods => (pods = 0 /\ pc = "sleep")
       /\ pc = "safe_update_deployment" => Corrective

\* At the single allowed count, with a backlog that matches the scale-up (or
\* the scale-down) threshold, the cycle went to sleep without an update.
C15_Witness ==
    /\ pc = "sleep" /\ pods = 0
    /\ options.min_pods = options.max_pods
    /\ deployment = options.min_pods
    /\ \/ messages >= options.scale_up_messages
       \/ messages <= options.scale_down_messages

\* ------------------------------------------------------------------ C18
\* C18: with 0 <= min_pods <= max_pods, the replica count an update call
\* carries lies in [min_pods, max_pods]: a +1 stays at or below max_pods, a -1
\* stays at or above min_pods, and a corrective jump lands on the violated bound.
C18_UpdateWithinBounds ==
    [][(/\ pc = "update_deployment"
        /\ 0 <= options.min_pods /\ options.min_pods <= options.max_pods)
        => /\ options.min_pods <= deployment'
           /\ deployment' <= options.max_pods
           /\ deployment < options.min_pods => deployment' = options.min_pods
           /\ deployment > options.max_pods => deployment' = options.max_pods
           /\ ~Corrective => (deployment' = deployment + 1 \/ deployment' = deployment - 1)]_vars

\* An update call carried exactly max_pods after a +1, or exactly min_pods
\* after a -1.
C18_Witness ==
    /\ pc = "sleep" /\ outcome = "updated"
    /\ \/ pods = 1 /\ deployment = options.max_pods /\ patch_down = None /\ replicas = deployment
       \/ pods = -1 /\ deployment = options.min_pods /\ patch_up = None /\ replicas = deployment

\* ------------------------------------------------------------------ C14
\* C14: the replica count an update call carries is max(0, current + delta)
\* and so never negative, also with min_pods or max_pods below zero.
C14_NeverNegative ==
    [][(pc = "update_deployment")
        => /\ deployment' >= 0
           /\ deployment' = IF deployment + pods > 0 THEN deployment + pods ELSE 0]_vars

\* An update call whose fetched count plus delta was below zero carried 0
\* (the call failed, so the cluster still holds the fetched count).
C14_Witness ==
    /\ pc = "sleep" /\ outcome = "failed"
    /\ pods < 0 /\ patch_down # None
    /\ replicas + pods < 0
    /\ deployment = 0

\* ------------------------------------------------------------------ C16
\* The lists of variable names enforce_env_vars is evaluated on.
VarLists == UNION {[1..n -> EnvNames] : n \in 0..MaxVars}

\* C16: enforce_env_vars returns None when every listed variable is set to a
\* non-empty value and otherwise fails with the message naming the first
\* variable of the list that is unset or empty; with a required credential
\* variable missing, construction fails with that message and no cycle runs.
C16_StartupGatesLoop ==
    /\ \A names \in VarLists :
         LET missing == {i \in 1..Len(names) : ~Present(names[i])}
         IN  IF missing = {}
                THEN EnforceEnvVars(names) = ""
                ELSE \E i \in missing :
                       /\ \A j \in missing : i <= j
                       /\ EnforceEnvVars(names) = NotPresentMessage(names[i])
    /\ (\E i \in 1..Len(REQUIRED_ENV_VARS) : ~Present(REQUIRED_ENV_VARS[i]))
         => /\ pc \in {"init", "exited"}
            /\ pc = "exited" =>
                  \E i \in 1..Len(REQUIRED_ENV_VARS) :
                     /\ ~Present(REQUIRED_ENV_VARS[i])
                     /\ \A j \in 1..(i - 1) : Present(REQUIRED_ENV_VARS[j])
                     /\ startup_error = NotPresentMessage(REQUIRED_ENV_VARS[i])
            /\ messages = None /\ deployment = None /\ outcome = "none"
            /\ patched_name = ""
    /\ pc \notin {"init", "exited"}
         => \A i \in 1..Len(REQUIRED_ENV_VARS) : Present(REQUIRED_ENV_VARS[i])

\* Construction ended on the second required variable, set but empty, the
\* first one being present.
C16_Witness ==
    /\ pc = "exited"
    /\ environ["AWS_ACCESS_KEY_ID"] = "13"
    /\ environ["AWS_SECRET_ACCESS_KEY"] = ""
    /\ startup_error = "Environment variable is not present: AWS_SECRET_ACCESS_KEY"

\* ------------------------------------------------------------------ C11
\* C11: the record an update call is issued against is the record fetched in
\* the same cycle: at the end of a cycle that issued an update call, the name
\* the call was addressed to is the name of the fetched record.
C11_PatchedIsFetched ==
    (pc = "sleep" /\ pods # 0 /\ outcome # "blocked")
    => patched_name = deployment_name

\* ------------------------------------------------------------------ C17
\* C17: the update changes the replica count only: the step of the update
\* call leaves the other fields of the deployment as the cluster holds them,
\* also when they were edited after this cycle's fetch.
C17_OnlyReplicasChange ==
    [][(pc = "update_deployment") => template' = template]_vars

\* ------------------------------------------------------------------ C19
\* The cluster's replica count lies in [min_pods, max_pods].
Inside == options.min_pods <= replicas /\ replicas <= options.max_pods

\* C19: with 0 <= min_pods <= max_pods, when no call fails and nobody else
\* edits the replica count, a replica count outside [min_pods, max_pods] is
\* eventually brought inside, and a count inside never leaves the range.
C19_ReturnsInsideBounds ==
    /\ (~Inside) ~> Inside
    /\ [][Inside => Inside']_vars

\* A corrective jump of two down was applied, under a scale-down cooldown
\* that the clock first had to reach.
C19_Witness ==
    /\ pc = "sleep" /\ outcome = "updated"
    /\ pods <= -2
    /\ replicas = options.max_pods
    /\ options.scale_down_cool_down > 0

\* ------------------------------------------------------------------ C20
HeldHigh == queue # None /\ queue >= options.scale_up_messages
HeldLow  == queue # None /\ queue <= options.scale_down_messages

\* The clock has reached the last tick it is followed to.
Starved == pc = "sleep" /\ now + options.poll_period > MaxTime

\* The cooldown of the direction ends while the clock is still followed.
UpDue   == last_scale_up_time + options.scale_up_cool_down <= MaxTime
DownDue == last_scale_down_time + options.scale_down_cool_down <= MaxTime

\* C20: with scale_down_messages < scale_up_messages and min_pods <= max_pods,
\* no failing call and no other editor, a backlog held at or above
\* scale_up_messages never lowers a replica count that is within bounds,
\* raises a count below max_pods once the scale-up cooldown has ended, so
\* that the count reaches max_pods (as far as the clock is followed), and at
\* max_pods no update call is issued any more; symmetrically for a backlog
\* held at or below scale_down_messages and min_pods.
C20_HeldBacklogConverges ==
    /\ [][(HeldHigh /\ Inside) => replicas' >= replicas]_vars
    /\ [][(HeldLow /\ Inside) => replicas' <= replicas]_vars
    /\ (HeldHigh /\ replicas < options.max_pods /\ pc = "get_number_of_messages"
          /\ UpDue)
         ~> (pc = "sleep" /\ outcome = "updated" /\ pods > 0)
    /\ (HeldLow /\ replicas > options.min_pods /\ pc = "get_number_of_messages"
          /\ DownDue)
         ~> (pc = "sleep" /\ outcome = "updated" /\ pods < 0)
    /\ HeldHigh ~> (replicas = options.max_pods \/ Starved)
    /\ HeldLow ~> (replicas = options.min_pods \/ Starved)
    /\ [][(HeldHigh /\ replicas = options.max_pods)
            => /\ replicas' = replicas
               /\ pc' # "safe_update_deployment" /\ pc' # "update_deployment"]_vars
    /\ [][(HeldLow /\ replicas = options.min_pods)
            => /\ replicas' = replicas
               /\ pc' # "safe_update_deployment" /\ pc' # "update_deployment"]_vars

\* Under a held high backlog the count went from min_pods = 0 to max_pods = 2
\* by two applied +1 steps a cooldown apart, and the next cycle found nothing
\* to do.
C20_Witness ==
    /\ HeldHigh
    /\ pc = "sleep" /\ pods = 0 /\ deployment = options.max_pods
    /\ replicas = options.max_pods
    /\ options.max_pods - options.min_pods = 2
    /\ options.scale_up_cool_down > 0
    /\ applied_up # None /\ patch_down = None
    /\ last_scale_up_time >= 2 * options.scale_up_cool_down

====
